---- MODULE Spec2Model ----
(***************************************************************************)
(* A model of index.js, the SigV4-signing forwarding proxy: start-up       *)
(* (endpoint / region / target resolution, initializeCredentials, listen)  *)
(* and the express middleware chain that every request walks through       *)
(* (compression, bodyParser.raw, getCredentials, health route, basicAuth,  *)
(* the sign-and-forward handler, and http-proxy's proxyRes / error events).*)
(***************************************************************************)
EXTENDS Integers, Sequences, FiniteSets, TLC

\* ------------------------------------------------------------------ bounds
\* Request body limit in bytes (argv.l, "10000kb" by default), scaled down.
REQ_LIMIT == 1
\* Longest endpoint hostname, in labels, that SpecRegion enumerates.
MaxLabels == 8

\* ---------------------------------------------------------------- constants
\* JavaScript's undefined / an unset option / an unset environment variable.
None == "undefined"

\* The bytes request bodies are made of.
Byte == {0, 1}

\* Request slots (requests in flight at once).
Reqs == {"r1"}

\* Hostname labels endpoints are built from.
Labels == {"search-prod", "us-west-2", "es", "amazonaws", "com"}

\* The labels of the alphabet that begin with the characters "com".
ComPrefixed == {l \in Labels : l = "com"}

AwsHost == <<"search-prod", "us-west-2", "es", "amazonaws", "com">>

\* No endpoint on the command line or in the environment. An endpoint is its
\* scheme (given or not), its hostname as labels, and its port ("" for none).
NoEndpoint == [given |-> FALSE, scheme |-> FALSE, host |-> <<>>, port |-> ""]

\* The endpoints the main specification starts from: with and without a
\* scheme, with and without a region in the name.
Endpoints ==
    { [given |-> TRUE, scheme |-> FALSE, host |-> AwsHost, port |-> ""],
      [given |-> TRUE, scheme |-> TRUE,  host |-> AwsHost, port |-> ""],
      [given |-> TRUE, scheme |-> TRUE,  host |-> <<"localhost">>, port |-> "9200"] }

VARIABLES
    argv,        \* the command line: options as given, before their defaults
    env,         \* process.env
    phase,       \* start-up: "load", "creds1", "creds2", "sts", "ready", "listening", "exited"
    exitCode,    \* the status given to process.exit (0 while the process runs)
    ENDPOINT,    \* var ENDPOINT
    REGION,      \* var REGION
    TARGET,      \* var TARGET
    signer,      \* var signer
    provider,    \* what credentials() yields now: NoCredentials (it rejects) or a set
    initLog,     \* what initializeCredentials has achieved so far (history)
    bound,       \* the listening socket is bound
    rq           \* the request in each slot

vars == <<argv, env, phase, exitCode, ENDPOINT, REGION, TARGET, signer,
          provider, initLog, bound, rq>>

\* ------------------------------------------------------------- credentials
\* credentials() rejects.
NoCredentials == [accessKeyId |-> None, secretAccessKey |-> None, sessionToken |-> None]

\* CredentialSets the provider chain can yield: without and with a session token.
CredentialSets ==
    { [accessKeyId |-> "AK1", secretAccessKey |-> "SK1", sessionToken |-> None],
      [accessKeyId |-> "AK2", secretAccessKey |-> "SK2", sessionToken |-> "TOK2"] }

NoSigner == [built |-> FALSE, region |-> None, service |-> None]

\* ------------------------------------------------------------ configuration
\* a || b of JavaScript on option values (undefined and "" are falsy).
Or(a, b) == IF a # None /\ a # "" THEN a ELSE b

\* yargs options with their defaults from the environment.
ArgU == Or(argv.u, Or(env.AUTH_USER, env.USER))
ArgA == Or(argv.a, Or(env.AUTH_PASSWORD, env.PASSWORD))
ArgR == Or(argv.r, env.REGION)
ArgH == Or(argv.H, env.HEALTH_PATH)
PROFILE == env.AWS_PROFILE

\* process.env.ENDPOINT || argv._[0]
EndpointOf == IF env.ENDPOINT.given THEN env.ENDPOINT ELSE argv.positional

Min(S) == CHOOSE x \in S : \A y \in S : x <= y

\* ENDPOINT.match(/\.([^.]+)\.es\.amazonaws\.com\.?(?=.*$)/): the leftmost dot
\* followed by a non-empty label, then ".es.amazonaws.com" and anything at all.
\* The result is the captured label m[1], or None when there is no match.
RegionMatch(e) ==
    LET L == e.host
        hits == { i \in 2..(Len(L) - 3) :
                    /\ L[i] # ""
                    /\ L[i + 1] = "es"
                    /\ L[i + 2] = "amazonaws"
                    /\ L[i + 3] \in ComPrefixed }
    IN  IF hits = {} THEN None ELSE L[Min(hits)]

\* Region resolution that falls back to a default region instead of failing.
RegionOfDefault(r, e) ==
    IF r # None /\ r # "" THEN r
    ELSE IF RegionMatch(e) # None THEN RegionMatch(e) ELSE "us-east-1"

\* var REGION = argv.r; if (!REGION) { m = ENDPOINT.match(...); REGION = m[1] }
RegionOf(r, e) == IF r # None /\ r # "" THEN r ELSE RegionMatch(e)

\* TARGET: "https://" is prefixed when the endpoint has no scheme.
TargetOf(e) == [given |-> TRUE, scheme |-> TRUE, host |-> e.host, port |-> e.port]

\* new URL(s): throws (ok = FALSE) when s has no scheme; hostname is the host
\* without the port.
ParseURL(s) ==
    IF s.scheme THEN [ok |-> TRUE, hostname |-> s.host]
    ELSE [ok |-> FALSE, hostname |-> <<>>]

\* users[process.env.USER || process.env.AUTH_USER] =
\*     process.env.PASSWORD || process.env.AUTH_PASSWORD
\* (an undefined user becomes the key "undefined").
users == [name |-> Or(env.USER, env.AUTH_USER),
          pass |-> Or(env.PASSWORD, env.AUTH_PASSWORD)]

\* The chain with basicAuth registered before the health route.
StackAuthBeforeHealth ==
    <<"compress", "bodyParser", "getCredentials">>
    \o (IF ArgU # None /\ ArgU # "" /\ ArgA # None /\ ArgA # "" THEN <<"basicAuth">> ELSE <<>>)
    \o (IF ArgH # None /\ ArgH # "" THEN <<"health">> ELSE <<>>)
    \o <<"signAndForward">>

\* The chain with getCredentials registered after the health route and basicAuth.
StackCredentialsLast ==
    <<"compress", "bodyParser">>
    \o (IF ArgH # None /\ ArgH # "" THEN <<"health">> ELSE <<>>)
    \o (IF ArgU # None /\ ArgU # "" /\ ArgA # None /\ ArgA # "" THEN <<"basicAuth">> ELSE <<>>)
    \o <<"getCredentials", "signAndForward">>

\* The middleware chain in the order app.use / app.get register it.
Stack ==
    <<"compress", "bodyParser", "getCredentials">>
    \o (IF ArgH # None /\ ArgH # "" THEN <<"health">> ELSE <<>>)
    \o (IF ArgU # None /\ ArgU # "" /\ ArgA # None /\ ArgA # "" THEN <<"basicAuth">> ELSE <<>>)
    \o <<"signAndForward">>

\* ------------------------------------------------------------------ start-up
NoArgv == [positional |-> NoEndpoint, r |-> None, u |-> None, a |-> None, H |-> None]

NoEnv == [ENDPOINT |-> NoEndpoint, REGION |-> None, AUTH_USER |-> None,
          AUTH_PASSWORD |-> None, USER |-> None, PASSWORD |-> None,
          HEALTH_PATH |-> None, AWS_PROFILE |-> None]

\* How the endpoint and the region are given: by argument or by environment,
\* region in the name or given with -r, or missing.
EndpointLaunches ==
    { <<[NoArgv EXCEPT !.positional = [given |-> TRUE, scheme |-> FALSE, host |-> AwsHost, port |-> ""]], NoEnv>>,
      <<NoArgv, [NoEnv EXCEPT !.ENDPOINT = [given |-> TRUE, scheme |-> TRUE, host |-> AwsHost, port |-> ""]]>>,
      <<[NoArgv EXCEPT !.positional = [given |-> TRUE, scheme |-> FALSE, host |-> AwsHost, port |-> ""],
                       !.r = "eu-west-1"], NoEnv>>,
      <<[NoArgv EXCEPT !.positional = [given |-> TRUE, scheme |-> TRUE, host |-> <<"localhost">>,
                                       port |-> "9200"],
                       !.r = "eu-west-1"], NoEnv>>,
      <<[NoArgv EXCEPT !.positional = [given |-> TRUE, scheme |-> TRUE, host |-> <<"localhost">>, port |-> ""]], NoEnv>>,
      <<NoArgv, NoEnv>> }

\* How Basic-Auth is given: not at all, by AUTH_USER / AUTH_PASSWORD, the same in
\* a login shell (USER is set), or by the -u / -a flags alone.
AuthLaunches ==
    { <<NoArgv, NoEnv>>,
      <<NoArgv, [NoEnv EXCEPT !.AUTH_USER = "alice", !.AUTH_PASSWORD = "pw"]>>,
      <<NoArgv, [NoEnv EXCEPT !.AUTH_USER = "alice", !.AUTH_PASSWORD = "pw", !.USER = "login"]>>,
      <<[NoArgv EXCEPT !.u = "alice", !.a = "pw"], NoEnv>> }

HealthPaths == {None, "/health"}

Profiles == {None, "dev"}

\* The launches the main specification starts from. A profile is combined
\* with the endpoint alone: it plays no part once the server listens.
Launches ==
    { <<[positional |-> e[1].positional, r |-> e[1].r, u |-> a[1].u, a |-> a[1].a, H |-> h],
        [e[2] EXCEPT !.AUTH_USER = a[2].AUTH_USER, !.AUTH_PASSWORD = a[2].AUTH_PASSWORD,
                     !.USER = a[2].USER, !.AWS_PROFILE = p]>> :
        e \in EndpointLaunches, a \in AuthLaunches, h \in HealthPaths, p \in {None} }
    \cup
    { <<e[1], [e[2] EXCEPT !.AWS_PROFILE = p]>> : e \in EndpointLaunches, p \in Profiles \ {None} }

\* A Host header: a hostname, and a port ("" for none).
HostHeader(name, port) == [k |-> "host", name |-> name, port |-> port]

\* A header the request does not carry.
Absent == [k |-> "absent"]

\* const headersToInclude = [...]
headersToInclude == {"accept", "accept-encoding", "accept-language", "content-type",
                     "upgrade-insecure-requests"}

\* The header names of req.headers the model follows.
HeaderNames == {"host", "authorization", "x-amz-date", "x-amz-content-sha256",
                "x-amz-security-token"} \cup headersToInclude

\* The response object before anything is written; sends counts the response
\* heads written to the caller.
NoResponse == [statusCode |-> 0, body |-> None, headersSent |-> FALSE, ended |-> FALSE,
               cacheControl |-> FALSE, challenge |-> FALSE, compress |-> FALSE, sends |-> 0]

NoBody == [present |-> FALSE, bytes |-> <<>>]

\* The upstream's answer: its status and body, whether its head has been
\* written to the caller (relayed) and whether its body has ended (complete).
NoUpstream == [statusCode |-> 0, body |-> None, relayed |-> FALSE, complete |-> FALSE]

Idle ==
    [pc |-> "idle", pos |-> 0, method |-> None, url |-> [path |-> None, tail |-> <<>>],
     inbound |-> [h \in HeaderNames |-> Absent],
     headers |-> [h \in HeaderNames |-> Absent],
     wire |-> NoBody, stream |-> <<>>,
     body |-> [kind |-> "unset", bytes |-> <<>>],
     res |-> NoResponse, stages |-> <<>>, credCalls |-> 0, signCalls |-> 0,
     upstreamCalls |-> 0, canon |-> [k |-> "none"], creds |-> NoCredentials,
     signedWith |-> NoCredentials,
     out |-> [k |-> "none"], up |-> NoUpstream, err |-> None, prior |-> {}]

Init ==
    /\ \E l \in Launches : argv = l[1] /\ env = l[2]
    /\ phase = "load"
    /\ exitCode = 0
    /\ ENDPOINT = NoEndpoint
    /\ REGION = None
    /\ TARGET = NoEndpoint
    /\ signer = NoSigner
    /\ provider \in CredentialSets \cup {NoCredentials}
    /\ initLog = {}
    /\ bound = FALSE
    /\ rq = [r \in Reqs |-> Idle]

\* process.exit(1)
Exit(code) ==
    /\ phase' = "exited"
    /\ exitCode' = code

\* The catch block without its process.exit(1): the promise resolves.
CatchInitFailureNoExit == phase' = "ready" /\ UNCHANGED exitCode

\* The catch block of initializeCredentials: log, then process.exit(1).
CatchInitFailure == Exit(1)

\* Lines 71-101 and the synchronous rest of the script up to the first await of
\* initializeCredentials(): resolve ENDPOINT, REGION and TARGET, or exit.
\* (yargs.showHelp() before process.exit(1) prints the usage or throws; a
\* throw at the top level of the script ends the process with status 1 too.)
Load ==
    /\ phase = "load"
    /\ ENDPOINT' = EndpointOf
    /\ IF ~EndpointOf.given
       THEN /\ Exit(1)
            /\ UNCHANGED <<REGION, TARGET>>
       ELSE /\ REGION' = RegionOf(ArgR, EndpointOf)
            /\ IF REGION' = None
               THEN /\ Exit(1)
                    /\ UNCHANGED TARGET
               ELSE /\ TARGET' = TargetOf(EndpointOf)
                    /\ phase' = "creds1"
                    /\ UNCHANGED exitCode
    /\ UNCHANGED <<argv, env, signer, provider, initLog, bound, rq>>

\* new SignatureV4({credentials, region: REGION, service: "es", sha256})
NewSigner == [built |-> TRUE, region |-> REGION, service |-> "es"]

\* The first `await credentials()` of initializeCredentials: with a profile a
\* rejection is caught and the same resolution is tried again, without one it
\* is the only attempt.
initializeCredentials ==
    /\ phase = "creds1"
    /\ IF provider # NoCredentials
       THEN /\ signer' = NewSigner
            /\ initLog' = initLog \cup {"credentials"}
            /\ phase' = "sts"
            /\ UNCHANGED exitCode
       ELSE /\ UNCHANGED <<signer, initLog>>
            /\ IF PROFILE # None /\ PROFILE # ""
               THEN phase' = "creds2" /\ UNCHANGED exitCode
               ELSE CatchInitFailure
    /\ UNCHANGED <<argv, env, ENDPOINT, REGION, TARGET, provider, bound, rq>>

\* The `await credentials()` of the inner catch (the regular-profile retry).
initializeCredentialsRetry ==
    /\ phase = "creds2"
    /\ IF provider # NoCredentials
       THEN /\ signer' = NewSigner
            /\ initLog' = initLog \cup {"credentials"}
            /\ phase' = "sts"
            /\ UNCHANGED exitCode
       ELSE /\ UNCHANGED <<signer, initLog>>
            /\ CatchInitFailure
    /\ UNCHANGED <<argv, env, ENDPOINT, REGION, TARGET, provider, bound, rq>>

\* await stsClient.send(new GetCallerIdentityCommand({})): it needs credentials
\* and the network (ok); a failure is caught and the process exits.
ValidateIdentity ==
    /\ phase = "sts"
    /\ \E ok \in BOOLEAN :
        IF ok /\ provider # NoCredentials
        THEN /\ initLog' = initLog \cup {"identity"}
             /\ phase' = "ready"
             /\ UNCHANGED exitCode
        ELSE /\ UNCHANGED initLog
             /\ CatchInitFailure
    /\ UNCHANGED <<argv, env, ENDPOINT, REGION, TARGET, signer, provider, bound, rq>>

\* initializeCredentials().then(...): http.createServer(app).listen(PORT, BIND_ADDRESS)
Listen ==
    /\ phase = "ready"
    /\ bound' = TRUE
    /\ phase' = "listening"
    /\ UNCHANGED <<argv, env, exitCode, ENDPOINT, REGION, TARGET, signer, provider, initLog, rq>>

\* The credential source changes under the running process: the cached set
\* expires and the chain yields another set, or none at all.
ProviderChanges ==
    /\ phase \notin {"load", "exited"}
    /\ \E c \in (CredentialSets \cup {NoCredentials}) \ {provider} : provider' = c
    /\ UNCHANGED <<argv, env, phase, exitCode, ENDPOINT, REGION, TARGET, signer, initLog, bound, rq>>

\* ----------------------------------------------------------------- requests
Methods == {"GET", "POST"}

\* req.url, as its leading path and, in pieces, what follows it:
\* /health, /x, /app.js and /app.json.
Urls == { [path |-> "/health", tail |-> <<>>],
          [path |-> "/x", tail |-> <<>>],
          [path |-> "/app", tail |-> <<".js">>],
          [path |-> "/app", tail |-> <<".js", "on">>] }

Basic(u, p) == [k |-> "basic", user |-> u, pass |-> p]

Str(v) == [k |-> "str", v |-> v]

\* The Authorization headers callers send.
AuthHeaders == {Absent, Basic("alice", "pw"), Basic("login", "pw"), Basic("alice", "bad")}

AcceptHeaders == {Absent, Str("text/html")}

\* The x-amz-security-token headers callers send.
TokenHeaders == {Absent, Str("CALLER-TOKEN")}

\* The bodies callers send: none, or up to one byte more than the limit.
WireBodies ==
    {NoBody} \cup
    { [present |-> TRUE, bytes |-> b] : b \in UNION {[1..n -> Byte] : n \in 0..(REQ_LIMIT + 1)} }

UpstreamStatuses == {200, 503}

UpstreamBodies == {"upstream-body"}

\* The hex SHA-256 digest of a byte sequence, as a 16-bit rolling digest.
RECURSIVE Digest(_)
Digest(b) ==
    IF b = <<>> THEN 5381
    ELSE (Digest(SubSeq(b, 1, Len(b) - 1)) * 33 + b[Len(b)] + 1) % 65536

Sha256Hex(b) == [k |-> "hex", digest |-> Digest(b)]

\* rq' with slot r replaced, everything else as it was.
Step(r, q) ==
    /\ rq' = [rq EXCEPT ![r] = q]
    /\ UNCHANGED <<argv, env, phase, exitCode, ENDPOINT, REGION, TARGET, signer,
                   provider, initLog, bound>>

\* next(): on to the following middleware.
CallNext(q) == [q EXCEPT !.pos = @ + 1]

\* res.status(code).send(body)
Send(res, code, body) ==
    [res EXCEPT !.statusCode = code, !.body = body, !.headersSent = TRUE, !.ended = TRUE,
                !.sends = @ + 1]

\* next(err): express's final error handler answers with err.status, or 500.
CallNextErr(q, code, cause) ==
    [q EXCEPT !.pc = "done", !.err = cause, !.res = Send(q.res, code, "error-page")]

Ran(q, stage) == [q EXCEPT !.stages = Append(@, stage)]

\* The failures of the requests in the other slots that are over when a
\* request arrives in slot r (history: what the server had been through).
FailuresBefore(r) ==
    { rq[o].err : o \in { x \in DOMAIN rq \ {r} : rq[x].pc = "done" /\ rq[x].err # None } }

\* A request arrives on the listening socket, its method, url, headers and
\* body drawn from the given sets.
ArriveFrom(r, methods, urls, auths, accepts, tokens, bodies) ==
    /\ phase = "listening"
    /\ bound
    /\ rq[r].pc = "idle"
    /\ \E m \in methods, u \in urls, a \in auths, acc \in accepts, t \in tokens, w \in bodies :
        LET h == [n \in HeaderNames |->
                    CASE n = "authorization" -> a
                      [] n = "accept" -> acc
                      [] n = "x-amz-security-token" -> t
                      [] n = "host" -> HostHeader(<<"proxy">>, "9200")
                      [] OTHER -> Absent]
        IN Step(r, [Idle EXCEPT !.pc = "mw", !.pos = 1, !.method = m, !.url = u,
                                !.inbound = h, !.headers = h, !.wire = w, !.stream = w.bytes,
                                !.prior = FailuresBefore(r)])

Arrive(r) == ArriveFrom(r, Methods, Urls, AuthHeaders, AcceptHeaders, TokenHeaders, WireBodies)

\* app.use(compress()): responses are compressed from here on.
Compress(r) ==
    LET q == rq[r] IN
    /\ q.pc = "mw" /\ Stack[q.pos] = "compress"
    /\ Step(r, CallNext([Ran(q, "compress") EXCEPT !.res.compress = TRUE]))

\* raw-body's limit check: more bytes than the limit is an error.
TooLarge(bytes) == Len(bytes) > REQ_LIMIT

\* bodyParser.raw({limit: REQ_LIMIT, type: () => true}): a request without a body
\* is passed on with req.body left undefined, a larger body than the limit is
\* refused with 413, any other body is read whole into a Buffer.
BodyParser(r) ==
    LET q == Ran(rq[r], "bodyParser") IN
    /\ rq[r].pc = "mw" /\ Stack[rq[r].pos] = "bodyParser"
    /\ IF ~q.wire.present
       THEN Step(r, CallNext([q EXCEPT !.body = [kind |-> "undefined", bytes |-> <<>>]]))
       ELSE IF TooLarge(q.wire.bytes)
       THEN Step(r, CallNextErr(q, 413, "PayloadTooLarge"))
       ELSE Step(r, CallNext([q EXCEPT !.body = [kind |-> "buffer", bytes |-> q.wire.bytes],
                                       !.stream = <<>>]))

\* getCredentials: await credentials(), then next() or next(err).
getCredentials(r) ==
    LET q == [Ran(rq[r], "getCredentials") EXCEPT !.credCalls = @ + 1] IN
    /\ rq[r].pc = "mw" /\ Stack[rq[r].pos] = "getCredentials"
    /\ IF provider # NoCredentials
       THEN Step(r, CallNext(q))
       ELSE Step(r, CallNextErr(q, 500, "Credentials"))

\* The route registered with app.post instead of app.get.
HealthMatchesPost(q) == q.method = "POST" /\ q.url.path = ArgH /\ q.url.tail = <<>>

\* app.get(argv.H, ...) matches GET requests for exactly that path.
HealthMatches(q) == q.method = "GET" /\ q.url.path = ArgH /\ q.url.tail = <<>>

\* The health route: res.send("ok"), or on to the next middleware.
Health(r) ==
    LET q == Ran(rq[r], "health") IN
    /\ rq[r].pc = "mw" /\ Stack[rq[r].pos] = "health"
    /\ IF HealthMatches(q)
       THEN Step(r, [q EXCEPT !.pc = "done", !.res = Send(q.res, 200, "ok")])
       ELSE Step(r, CallNext(q))

\* An authorizer that compares the user name alone.
AuthorizedByName(h) == h.user = users.name

\* express-basic-auth's authorizer on the registered users.
Authorized(h) == h.user = users.name /\ h.pass = users.pass

\* basicAuth({users, challenge: true}): no Basic credentials or the wrong ones
\* are answered 401 with a challenge; comparing against an undefined password
\* throws, which express answers with 500.
BasicAuth(r) ==
    LET q == Ran(rq[r], "basicAuth")
        h == q.headers["authorization"]
        unauthorized == [q EXCEPT !.pc = "done", !.err = "Unauthorized",
                                  !.res = Send([q.res EXCEPT !.challenge = TRUE], 401, "")]
    IN
    /\ rq[r].pc = "mw" /\ Stack[rq[r].pos] = "basicAuth"
    /\ IF h.k # "basic" THEN Step(r, unauthorized)
       ELSE IF users.pass = None THEN Step(r, CallNextErr(q, 500, "AuthorizerThrew"))
       ELSE IF Authorized(h) THEN Step(r, CallNext(q))
       ELSE Step(r, unauthorized)

\* ------------------------------------------------------- sign and forward
\* const body = Buffer.isBuffer(req.body) ? req.body : Buffer.from(req.body || "")
HandlerBody(reqBody) == IF reqBody.kind = "buffer" THEN reqBody.bytes ELSE <<>>

\* The names of the canonical request's headers (Host is written capitalised).
CanonNames == {"Host", "x-amz-content-sha256"} \cup headersToInclude

\* request.headers: Host and the content hash, then every header of
\* headersToInclude the inbound request carries (req.get(name) !== undefined).
CanonHeaders(hostname, contentSha256, q) ==
    [n \in CanonNames |->
        CASE n = "Host" -> HostHeader(hostname, "")
          [] n = "x-amz-content-sha256" -> contentSha256
          [] OTHER -> q.headers[n]]

\* The host the handler signs for: new URL(ENDPOINT).
SigningURL == ParseURL(ENDPOINT)

\* The catch block that only logs.
CatchSigningLogOnly(q, cause) == [q EXCEPT !.pc = "done", !.err = cause]

\* The catch block of the handler: log, and answer 500 unless headers were sent.
CatchSigning(q, cause) ==
    [q EXCEPT !.pc = "done", !.err = cause,
              !.res = IF q.res.headersSent THEN q.res
                      ELSE Send(q.res, 500, "Internal Server Error")]

\* The handler up to `await signer.sign(request)`.
SignAndForward(r) ==
    LET q == Ran(rq[r], "signAndForward")
        url == SigningURL
        body == HandlerBody(q.body)
        request == [k |-> "request", method |-> q.method, path |-> q.url,
                    headers |-> CanonHeaders(url.hostname, Sha256Hex(body), q),
                    body |-> body]
    IN
    /\ rq[r].pc = "mw" /\ Stack[rq[r].pos] = "signAndForward"
    /\ IF ~url.ok
       THEN Step(r, CatchSigning(q, "InvalidURL"))
       ELSE Step(r, [q EXCEPT !.pc = "sign", !.canon = request, !.signCalls = @ + 1])

\* h[name] of a JavaScript object: undefined when the key is not there.
Get(h, name) == IF name \in DOMAIN h THEN h[name] ELSE Absent

\* SignatureV4.sign: the request's headers (keys as given) with x-amz-date,
\* x-amz-security-token when the set has a session token, and authorization,
\* the signature over method, path, headers and payload hash under the
\* credential set, region and service.
SignedHeaders(request, c, sg) ==
    LET date == [k |-> "date"]
        token == IF c.sessionToken # None THEN Str(c.sessionToken) ELSE Absent
        signed == [n \in CanonNames \cup {"x-amz-date", "x-amz-security-token"} |->
                    CASE n = "x-amz-date" -> date
                      [] n = "x-amz-security-token" -> token
                      [] OTHER -> request.headers[n]]
        auth == [k |-> "sigv4", accessKeyId |-> c.accessKeyId,
                 secretAccessKey |-> c.secretAccessKey,
                 region |-> sg.region, service |-> sg.service,
                 method |-> request.method, path |-> request.path,
                 signedHeaders |-> signed,
                 payloadHash |-> request.headers["x-amz-content-sha256"]]
    IN  [n \in DOMAIN signed \cup {"authorization"} |->
            IF n = "authorization" THEN auth ELSE signed[n]]

\* A merge that sets x-amz-security-token whether or not the signer produced one.
MergeTokenAlways(headers, signed) ==
    [headers EXCEPT
        !["host"] = Get(signed, "host"),
        !["x-amz-date"] = Get(signed, "x-amz-date"),
        !["authorization"] = Get(signed, "authorization"),
        !["x-amz-content-sha256"] = Get(signed, "x-amz-content-sha256"),
        !["x-amz-security-token"] = Get(signed, "x-amz-security-token")]

\* Lines 255-264: the signed headers are set on the inbound request.
Merge(headers, signed) ==
    [headers EXCEPT
        !["host"] = Get(signed, "host"),
        !["x-amz-date"] = Get(signed, "x-amz-date"),
        !["authorization"] = Get(signed, "authorization"),
        !["x-amz-content-sha256"] = Get(signed, "x-amz-content-sha256"),
        !["x-amz-security-token"] =
            IF Get(signed, "x-amz-security-token") # Absent
            THEN Get(signed, "x-amz-security-token") ELSE @]

\* No buffer option: http-proxy pipes the inbound stream, which is drained.
ForwardedBodyFromStream(q) == q.stream

\* The bytes http-proxy pipes upstream: options.buffer, the PassThrough holding
\* req.body when that is a Buffer, else what is left on the inbound stream.
ForwardedBody(q) == IF q.body.kind = "buffer" THEN q.body.bytes ELSE q.stream

\* proxy.web(req, res, {buffer}) under {target: TARGET, changeOrigin: true}: the
\* request goes to TARGET with the Host header rewritten to the target's host,
\* with the target's port when it has one.
ProxyWeb(q) ==
    [k |-> "request", method |-> q.method, url |-> q.url, target |-> TARGET,
     headers |-> [q.headers EXCEPT !["host"] = HostHeader(TARGET.host, TARGET.port)],
     body |-> ForwardedBody(q)]

\* signer.sign begins with `credentials = await this.credentialProvider()`: the
\* set the provider yields at that moment is held in a local of this call; on
\* a rejection sign rejects and the catch block answers.
SignResolve(r) ==
    LET q == rq[r] IN
    /\ q.pc = "sign"
    /\ IF provider = NoCredentials
       THEN Step(r, CatchSigning(q, "SignCredentials"))
       ELSE Step(r, [q EXCEPT !.pc = "signing", !.creds = provider])

\* A signer that reads the provider again when it derives the signing key.
ProviderNow(q) == provider

\* The set the session token is taken from: the local `credentials` of sign.
TokenCredentials(q) == q.creds

\* The set the signing key and the Credential= scope are taken from, after
\* the awaits of sign: the same local `credentials`.
KeyCredentials(q) == q.creds

\* signer.sign settles: the signed headers are merged and the request is
\* handed to the proxy.
Signed(r) ==
    LET q == rq[r]
        c == [accessKeyId |-> KeyCredentials(q).accessKeyId,
              secretAccessKey |-> KeyCredentials(q).secretAccessKey,
              sessionToken |-> TokenCredentials(q).sessionToken]
        m == [q EXCEPT !.headers = Merge(q.headers, SignedHeaders(q.canon, c, signer)),
                       !.signedWith = c]
    IN
    /\ q.pc = "signing"
    /\ Step(r, [m EXCEPT !.pc = "upstream", !.out = ProxyWeb(m), !.upstreamCalls = @ + 1])

\* req.url.match(/\.(css|js|img|font)/): the pattern is found anywhere in the
\* url, whatever follows it.
StaticAsset(url) ==
    \E i \in DOMAIN url.tail : url.tail[i] \in {".css", ".js", ".img", ".font"}

\* The upstream's response head arrives: the proxyRes handler sets
\* Cache-Control for static assets and http-proxy copies the status code.
ProxyRes(r) ==
    LET q == rq[r] IN
    /\ q.pc = "upstream"
    /\ \E s \in UpstreamStatuses, b \in UpstreamBodies :
        Step(r, [q EXCEPT !.pc = "relayHead",
                          !.up = [statusCode |-> s, body |-> b, relayed |-> FALSE,
                                  complete |-> FALSE],
                          !.res.statusCode = s,
                          !.res.cacheControl = StaticAsset(q.url)])

\* The first bytes of the upstream body are written: the head is sent.
RelayFlush(r) ==
    LET q == rq[r] IN
    /\ q.pc = "relayHead"
    /\ Step(r, [q EXCEPT !.pc = "relayBody", !.res.headersSent = TRUE,
                         !.res.sends = @ + 1, !.up.relayed = TRUE])

\* The upstream body ends: the response to the caller is complete.
RelayEnd(r) ==
    LET q == rq[r] IN
    /\ q.pc = "relayBody"
    /\ Step(r, [q EXCEPT !.pc = "done", !.up.complete = TRUE,
                         !.res.body = q.up.body, !.res.ended = TRUE])

\* The error handler without its headersSent guard.
OnProxyErrorUnguarded(q) ==
    [q EXCEPT !.pc = "done", !.err = "Transport",
              !.res = Send(q.res, 500, "Proxy error occurred")]

\* The error handler that only logs.
OnProxyErrorLogOnly(q) == [q EXCEPT !.pc = "done", !.err = "Transport"]

\* proxy.on("error"): log, and answer 500 unless headers were sent.
OnProxyError(q) ==
    [q EXCEPT !.pc = "done", !.err = "Transport",
              !.res = IF ~q.res.headersSent THEN Send(q.res, 500, "Proxy error occurred")
                      ELSE q.res]

\* A transport error: before the upstream answered, or while its answer is relayed.
ProxyError(r) ==
    /\ rq[r].pc \in {"upstream", "relayHead", "relayBody"}
    /\ Step(r, OnProxyError(rq[r]))

\* The exchange is over and the slot is free for the next request.
Close(r) ==
    /\ rq[r].pc = "done"
    /\ Step(r, Idle)

\* ------------------------------------------------------------ specification
Next ==
    \/ Load
    \/ initializeCredentials
    \/ initializeCredentialsRetry
    \/ ValidateIdentity
    \/ Listen
    \/ ProviderChanges
    \/ \E r \in Reqs : Arrive(r)
    \/ \E r \in Reqs : Compress(r)
    \/ \E r \in Reqs : BodyParser(r)
    \/ \E r \in Reqs : getCredentials(r)
    \/ \E r \in Reqs : Health(r)
    \/ \E r \in Reqs : BasicAuth(r)
    \/ \E r \in Reqs : SignAndForward(r)
    \/ \E r \in Reqs : SignResolve(r)
    \/ \E r \in Reqs : Signed(r)
    \/ \E r \in Reqs : ProxyRes(r)
    \/ \E r \in Reqs : RelayFlush(r)
    \/ \E r \in Reqs : RelayEnd(r)
    \/ \E r \in Reqs : ProxyError(r)
    \/ \E r \in Reqs : Close(r)

Spec == Init /\ [][Next]_vars

\* ------------------------------------------- region resolution on its own
\* Every hostname of up to MaxLabels labels.
Hostnames == UNION {[1..n -> Labels] : n \in 1..MaxLabels}

\* Start-up alone, from every hostname, with no region given and with one given.
InitRegion ==
    /\ \E h \in Hostnames, rg \in {None, "eu-west-1"} :
        argv = [NoArgv EXCEPT !.positional = [given |-> TRUE, scheme |-> TRUE, host |-> h, port |-> ""],
                              !.r = rg]
    /\ env = NoEnv
    /\ phase = "load"
    /\ exitCode = 0
    /\ ENDPOINT = NoEndpoint
    /\ REGION = None
    /\ TARGET = NoEndpoint
    /\ signer = NoSigner
    /\ provider = NoCredentials
    /\ initLog = {}
    /\ bound = FALSE
    /\ rq = [r \in Reqs |-> Idle]

NextRegion == Load

SpecRegion == InitRegion /\ [][NextRegion]_vars

\* ------------------------------------------- requests in flight together
\* Two request slots: two requests are in flight at once.
Reqs2 == {"r1", "r2"}

\* One launch, with the health route and Basic-Auth configured, and two slots.
InitConcurrent ==
    /\ argv = [NoArgv EXCEPT !.positional = [given |-> TRUE, scheme |-> TRUE, host |-> AwsHost, port |-> ""]]
    /\ env = [NoEnv EXCEPT !.HEALTH_PATH = "/health", !.AUTH_USER = "alice",
                           !.AUTH_PASSWORD = "pw"]
    /\ phase = "load"
    /\ exitCode = 0
    /\ ENDPOINT = NoEndpoint
    /\ REGION = None
    /\ TARGET = NoEndpoint
    /\ signer = NoSigner
    /\ provider \in CredentialSets \cup {NoCredentials}
    /\ initLog = {}
    /\ bound = FALSE
    /\ rq = [r \in Reqs2 |-> Idle]

\* The requests of the two-slot specification: GET requests for the health
\* path and for another path, with and without the registered pair, with a
\* body at and over the limit.
ArriveConcurrent(r) ==
    ArriveFrom(r, {"GET"}, {u \in Urls : u.tail = <<>>},
               {Absent, Basic("alice", "pw")}, {Absent}, {Absent},
               {w \in WireBodies : w.present /\ Len(w.bytes) >= REQ_LIMIT /\
                                   \A i \in DOMAIN w.bytes : w.bytes[i] = 0})

NextConcurrent ==
    \/ Load
    \/ initializeCredentials
    \/ ValidateIdentity
    \/ Listen
    \/ ProviderChanges
    \/ \E r \in Reqs2 : ArriveConcurrent(r)
    \/ \E r \in Reqs2 : Compress(r)
    \/ \E r \in Reqs2 : BodyParser(r)
    \/ \E r \in Reqs2 : getCredentials(r)
    \/ \E r \in Reqs2 : Health(r)
    \/ \E r \in Reqs2 : BasicAuth(r)
    \/ \E r \in Reqs2 : SignAndForward(r)
    \/ \E r \in Reqs2 : SignResolve(r)
    \/ \E r \in Reqs2 : Signed(r)
    \/ \E r \in Reqs2 : ProxyRes(r)
    \/ \E r \in Reqs2 : RelayFlush(r)
    \/ \E r \in Reqs2 : RelayEnd(r)
    \/ \E r \in Reqs2 : ProxyError(r)
    \/ \E r \in Reqs2 : Close(r)

SpecConcurrent == InitConcurrent /\ [][NextConcurrent]_vars

\* ------------------------------------------------------------------ claims
\* Stage s has run for request q.
Has(q, s) == \E i \in DOMAIN q.stages : q.stages[i] = s

LastStage(q) == q.stages[Len(q.stages)]

HealthConfigured == ArgH # None /\ ArgH # ""

BasicAuthConfigured == ArgU # None /\ ArgU # "" /\ ArgA # None /\ ArgA # ""

\* The request's path is the health path.
PathIsHealth(q) == HealthConfigured /\ q.url.path = ArgH /\ q.url.tail = <<>>

\* The request carries the registered user name and password.
CarriesRegisteredPair(q) ==
    /\ q.inbound["authorization"].k = "basic"
    /\ q.inbound["authorization"].user = users.name
    /\ q.inbound["authorization"].pass = users.pass

\* The request is in a slot (it has arrived).
Arrived(q) == q.pc # "idle"

IsHealthRequest(q) == PathIsHealth(q) /\ q.method = "GET"

\* C2 as stated: with Basic-Auth configured, a non-health request without the
\* registered pair is answered with a 401 challenge, never signed, never forwarded.
C2_Original ==
    \A r \in Reqs :
        LET q == rq[r] IN
        (BasicAuthConfigured /\ Arrived(q) /\ ~IsHealthRequest(q) /\ ~CarriesRegisteredPair(q)) =>
            /\ q.signCalls = 0
            /\ q.upstreamCalls = 0
            /\ (q.pc = "done" => q.res.statusCode = 401 /\ q.res.challenge)

\* C2 amended: with Basic-Auth configured, a non-health request without the
\* registered pair is never signed and never forwarded; it is answered with a
\* 401 challenge once it reaches the Basic-Auth gate, or with 500 there when
\* the registered password is undefined and the request carries Basic
\* credentials; a request stopped before the gate is answered 413 (body over
\* the limit) or 500 (credential resolution failed).
C2_UnauthorizedNeverSigned ==
    \A r \in Reqs :
        LET q == rq[r] IN
        (BasicAuthConfigured /\ Arrived(q) /\ ~IsHealthRequest(q) /\ ~CarriesRegisteredPair(q)) =>
            /\ q.signCalls = 0
            /\ q.upstreamCalls = 0
            /\ ~Has(q, "signAndForward")
            /\ (q.pc = "done" =>
                    \/ /\ LastStage(q) = "basicAuth"
                       /\ q.res.statusCode = 401 /\ q.res.challenge
                    \/ /\ LastStage(q) = "basicAuth"
                       /\ q.res.statusCode = 500
                       /\ q.inbound["authorization"].k = "basic" /\ users.pass = None
                    \/ /\ LastStage(q) = "bodyParser"
                       /\ q.res.statusCode = 413 /\ TooLarge(q.wire.bytes)
                    \/ /\ LastStage(q) = "getCredentials"
                       /\ q.res.statusCode = 500)

\* A request with a wrong password, challenged with 401.
C2_Witness ==
    \E r \in Reqs :
        /\ BasicAuthConfigured /\ ~IsHealthRequest(rq[r]) /\ rq[r].pc = "done"
        /\ rq[r].inbound["authorization"].k = "basic"
        /\ ~CarriesRegisteredPair(rq[r])
        /\ rq[r].res.statusCode = 401 /\ rq[r].res.challenge

\* C3 as stated: the host the signer signs for is parsed from the upstream
\* target and is the host the forwarder relays to, so the handler answers with
\* its own 500 only when credential resolution failed in signing.
C3_SignerHostIsTargetHost ==
    \A r \in Reqs :
        LET q == rq[r] IN
        /\ (q.out.k = "request" => q.canon.headers["Host"].name = q.out.target.host)
        /\ (q.pc = "done" /\ Has(q, "signAndForward") /\ q.upstreamCalls = 0) =>
                q.err = "SignCredentials"

\* C4: the socket is bound only after credential resolution and the identity
\* check have both succeeded; a failed start-up exits with status 1, with the
\* socket unbound and no request accepted.
C4_ListenAfterValidation ==
    /\ (phase \in {"sts", "ready", "listening"} => "credentials" \in initLog)
    /\ (phase \in {"ready", "listening"} => "identity" \in initLog)
    /\ (bound => phase = "listening")
    /\ (phase = "exited" => exitCode = 1 /\ ~bound)
    /\ (~bound => \A r \in Reqs : ~Arrived(rq[r]))

\* The server listens, with credentials resolved and the identity checked.
C4_Witness == bound /\ phase = "listening" /\ initLog = {"credentials", "identity"}

\* C5: the content hash sent upstream is the digest of exactly the bytes sent
\* upstream, which are the bytes that were hashed for signing and the bytes the
\* caller sent, at most the limit.
C5_HashOfForwardedBytes ==
    \A r \in Reqs :
        LET q == rq[r] IN
        q.out.k = "request" =>
            /\ q.out.headers["x-amz-content-sha256"] = Sha256Hex(q.out.body)
            /\ q.out.body = q.canon.body
            /\ q.out.body = q.wire.bytes
            /\ Len(q.out.body) <= REQ_LIMIT

\* A request with a body of exactly the limit has been forwarded.
C5_Witness ==
    \E r \in Reqs :
        /\ rq[r].out.k = "request"
        /\ rq[r].wire.present
        /\ Len(rq[r].out.body) = REQ_LIMIT
        /\ Len(rq[r].out.body) > 0

\* The bodies of the 500 responses the proxy writes itself.
OwnErrorBodies == {"Internal Server Error", "Proxy error occurred"}

C7_Original ==
    \A r \in Reqs :
        /\ rq[r].upstreamCalls <= 1
        /\ rq[r].err = "Transport" =>
                rq[r].res.statusCode = 500 /\ rq[r].res.body = "Proxy error occurred"

\* C7 amended: on a transport error before any of the response is written to
\* the caller, the caller gets a 500 with the generic body; on one after the
\* upstream's head was written, the caller keeps the upstream status and the
\* response is left unfinished; either way there is one upstream call at most
\* and the request is over.
C7_TransportErrorBeforeHead ==
    \A r \in Reqs :
        LET q == rq[r] IN
        /\ q.upstreamCalls <= 1
        /\ q.err = "Transport" =>
                /\ q.pc = "done" /\ q.upstreamCalls = 1
                /\ IF q.up.relayed
                   THEN q.res.statusCode = q.up.statusCode /\ ~q.res.ended
                   ELSE /\ q.res.statusCode = 500
                        /\ q.res.body = "Proxy error occurred"
                        /\ q.res.ended

\* A transport error answered with the proxy's 500.
C7_Witness ==
    \E r \in Reqs :
        /\ rq[r].err = "Transport" /\ rq[r].upstreamCalls = 1
        /\ rq[r].res.statusCode = 500 /\ rq[r].res.body = "Proxy error occurred"

\* The stages in the order the claim gives them.
C8_Order == <<"compress", "bodyParser", "getCredentials", "health", "basicAuth",
              "signAndForward">>

\* The stages of C8_Order this configuration has.
C8_Configured ==
    SelectSeq(C8_Order,
              LAMBDA s : /\ (s = "health" => HealthConfigured)
                         /\ (s = "basicAuth" => BasicAuthConfigured))

IsPrefix(a, b) == Len(a) <= Len(b) /\ a = SubSeq(b, 1, Len(a))

\* C8: the stages of a request run in the fixed order, each after the one
\* before it; a stage that fails or answers is the last one to run; the signer
\* and the upstream are reached only after every configured stage; and a
\* request that is over has been answered.
C8_StagesInOrder ==
    \A r \in Reqs :
        LET q == rq[r] IN
        /\ IsPrefix(q.stages, C8_Configured)
        /\ (q.pc = "mw" => Len(q.stages) = q.pos - 1 /\ ~q.res.headersSent)
        /\ (q.res.statusCode = 413 => LastStage(q) = "bodyParser")
        /\ (q.res.body = "error-page" /\ q.res.statusCode = 500 =>
                LastStage(q) \in {"getCredentials", "basicAuth"})
        /\ (q.res.body = "ok" => LastStage(q) = "health")
        /\ (q.res.statusCode = 401 => LastStage(q) = "basicAuth")
        /\ (q.signCalls > 0 \/ q.upstreamCalls > 0 \/ q.res.body \in OwnErrorBodies =>
                q.stages = C8_Configured)
        /\ (q.pc = "done" => q.res.statusCode # 0 /\ q.res.headersSent)
        /\ (q.res.headersSent => q.pc \in {"relayBody", "done"})

\* A request that ran all six stages and was answered.
C8_Witness ==
    \E r \in Reqs :
        rq[r].pc = "done" /\ rq[r].stages = C8_Order /\ rq[r].res.statusCode = 200

\* No other stage stopped the request: it is not a health request, it is
\* authorized where Basic-Auth is configured, and its credentials resolved.
OtherwiseServed(q) ==
    /\ ~IsHealthRequest(q)
    /\ (BasicAuthConfigured => CarriesRegisteredPair(q) /\ users.pass # None)
    /\ q.err \notin {"Credentials", "SignCredentials"}

\* C9 as stated: a request whose body is exactly the limit is accepted and
\* reaches the signer; one whose body is a byte larger is refused with 413,
\* with no credential resolution, signing or upstream call.
C9_LimitBoundary ==
    \A r \in Reqs :
        LET q == rq[r] IN
        /\ (q.wire.present /\ Len(q.wire.bytes) = REQ_LIMIT) =>
                /\ q.res.statusCode # 413
                /\ (q.pc = "done" /\ OtherwiseServed(q) => q.signCalls = 1)
        /\ (q.wire.present /\ Len(q.wire.bytes) = REQ_LIMIT + 1) =>
                /\ q.credCalls = 0 /\ q.signCalls = 0 /\ q.upstreamCalls = 0
                /\ (q.pc = "done" => q.res.statusCode = 413)

\* The hostname has the form *.<region>.es.amazonaws.com.
HasRegionForm(host) ==
    /\ Len(host) >= 5
    /\ host[Len(host) - 2] = "es"
    /\ host[Len(host) - 1] = "amazonaws"
    /\ host[Len(host)] = "com"

\* C10 as stated: with no region given, a hostname of the form
\* *.<region>.es.amazonaws.com resolves to <region>; a region that is given is
\* used unchanged; after start-up the region is never empty.
C10_RegionResolved ==
    phase # "load" =>
        /\ (ArgR = None /\ HasRegionForm(ENDPOINT.host)) =>
                REGION = ENDPOINT.host[Len(ENDPOINT.host) - 3]
        /\ (ArgR # None /\ ENDPOINT.given) => REGION = ArgR
        /\ phase # "exited" => REGION # None /\ REGION # ""

\* No endpoint is supplied, or no region is given and none can be parsed from
\* the endpoint.
NoEndpointOrRegion ==
    \/ ~EndpointOf.given
    \/ /\ ArgR \in {None, ""}
       /\ \A i \in 2..(Len(EndpointOf.host) - 3) :
            ~(/\ EndpointOf.host[i + 1] = "es"
              /\ EndpointOf.host[i + 2] = "amazonaws"
              /\ EndpointOf.host[i + 3] = "com")

\* C11: without an endpoint, or without a region given or parsable, start-up
\* never gets to a credential resolution (the phases creds1, creds2, sts) and
\* never binds; once start-up has run the process has exited with status 1,
\* with no signer built and no request accepted.
C11_ExitBeforeCredentials ==
    NoEndpointOrRegion =>
        /\ phase \in {"load", "exited"}
        /\ (phase = "exited" => exitCode = 1)
        /\ ~bound
        /\ initLog = {}
        /\ signer = NoSigner
        /\ \A r \in Reqs : rq[r] = Idle

\* The process has exited on an endpoint that has no region in its name.
C11_Witness ==
    /\ phase = "exited" /\ exitCode = 1 /\ ~bound
    /\ ENDPOINT.given /\ ArgR = None /\ REGION = None /\ initLog = {}

\* C12: after body capture the next stage is the credential resolution, and
\* no later stage runs without it; a request whose resolution failed is over,
\* answered with an error response, never signed and never sent upstream; the
\* process stays up and listening; and the stage ends in one of two ways only,
\* on to the next stage or that failure, whatever happened to earlier requests.
C12_ResolutionBeforeLaterStages ==
    \A r \in DOMAIN rq :
        LET q == rq[r] IN
        /\ (q.pc = "mw" /\ Has(q, "bodyParser") /\ ~Has(q, "getCredentials")) =>
                Stack[q.pos] = "getCredentials"
        /\ (Has(q, "health") \/ Has(q, "basicAuth") \/ Has(q, "signAndForward")) =>
                Has(q, "getCredentials") /\ q.credCalls = 1
        /\ (q.signCalls > 0 \/ q.upstreamCalls > 0) => q.credCalls = 1
        /\ q.err = "Credentials" =>
                /\ q.pc = "done" /\ LastStage(q) = "getCredentials"
                /\ q.res.statusCode = 500 /\ q.res.ended
                /\ q.signCalls = 0 /\ q.upstreamCalls = 0
                /\ phase = "listening" /\ bound /\ exitCode = 0
        /\ (Has(q, "getCredentials") /\ q.err # "Credentials") =>
                q.pos > Len(q.stages) \/ LastStage(q) # "getCredentials"
        /\ Arrived(q) => phase = "listening" /\ bound /\ exitCode = 0

\* A request that arrived after another had failed on its credential
\* resolution, forwarded and answered with the upstream's 200.
C12_Witness ==
    \E r \in DOMAIN rq :
        /\ "Credentials" \in rq[r].prior
        /\ rq[r].credCalls = 1 /\ rq[r].signCalls = 1 /\ rq[r].upstreamCalls = 1
        /\ rq[r].pc = "done" /\ rq[r].up.complete /\ rq[r].res.statusCode = 200

\* The x-amz-security-token header that belongs to credential set c.
TokenOf(c) == IF c.sessionToken # None THEN Str(c.sessionToken) ELSE Absent

CarriesConfiguredPair(q) == q.inbound["authorization"] = Basic(ArgU, ArgA)

\* C14 as stated: with Basic-Auth enabled the one pair the gate admits is the
\* configured pair (-u / -a, else AUTH_USER / AUTH_PASSWORD): a request
\* presenting the configured pair is admitted, and a request presenting any
\* other pair is challenged with 401.
C14_ConfiguredPairRegistered ==
    \A r \in Reqs :
        LET q == rq[r] IN
        (BasicAuthConfigured /\ Has(q, "basicAuth") /\ q.inbound["authorization"].k = "basic") =>
            IF CarriesConfiguredPair(q)
            THEN q.err \notin {"Unauthorized", "AuthorizerThrew"} /\ q.res.statusCode # 401
            ELSE q.pc = "done" /\ q.res.statusCode = 401 /\ q.res.challenge

\* C15 as stated: for a forwarded request, Host and every whitelisted header
\* have the same value in the canonical request and in the request sent
\* upstream (absent in both when the inbound request has none), and the
\* x-amz-date, x-amz-content-sha256, authorization and x-amz-security-token
\* sent upstream are the ones that signing operation produced.
C15_SignedHeadersForwarded ==
    \A r \in Reqs :
        LET q == rq[r]
            produced == SignedHeaders(q.canon, q.signedWith, signer)
        IN
        q.out.k = "request" =>
            /\ q.out.headers["host"] = q.canon.headers["Host"]
            /\ \A n \in headersToInclude :
                    /\ q.out.headers[n] = q.canon.headers[n]
                    /\ (q.inbound[n] = Absent => q.out.headers[n] = Absent)
            /\ \A n \in {"x-amz-date", "x-amz-content-sha256", "authorization",
                          "x-amz-security-token"} :
                    q.out.headers[n] = produced[n]

\* The per-request failures: credential resolution, signing, transport and
\* an oversized body.
RequestFailures == {"Credentials", "SignCredentials", "InvalidURL", "Transport", "PayloadTooLarge"}

\* C16 as stated: while requests are served the process neither exits nor
\* stops listening; no request gets two responses; and a request that failed
\* has one complete error response.
C16_Original ==
    \A r \in DOMAIN rq :
        LET q == rq[r] IN
        /\ Arrived(q) => phase = "listening" /\ bound /\ exitCode = 0
        /\ q.res.sends <= 1
        /\ q.err \in RequestFailures =>
                /\ q.pc = "done" /\ q.res.sends = 1
                /\ q.res.statusCode \in {413, 500} /\ q.res.ended

\* C16 amended: while requests are served the process neither exits nor stops
\* listening; no request gets two responses and none gets no response; a
\* request that failed before any of the upstream's response was written has
\* one complete error response (413 or 500); a request whose transport failed
\* after the upstream's head was written keeps that head as its one response,
\* left unfinished.
C16_FailuresAnswered ==
    \A r \in DOMAIN rq :
        LET q == rq[r] IN
        /\ Arrived(q) => phase = "listening" /\ bound /\ exitCode = 0
        /\ q.res.sends <= 1
        /\ q.pc = "done" => q.res.sends = 1
        /\ q.err \in RequestFailures =>
                /\ q.pc = "done" /\ q.res.sends = 1
                /\ IF q.err = "Transport" /\ q.up.relayed
                   THEN q.res.statusCode = q.up.statusCode /\ ~q.res.ended
                   ELSE q.res.statusCode \in {413, 500} /\ q.res.ended

\* A request whose transport failed, answered with one 500, and a request
\* that arrived after it, forwarded and answered with the upstream's 200.
C16_Witness ==
    \E a \in DOMAIN rq, b \in DOMAIN rq :
        /\ a # b
        /\ rq[a].pc = "done" /\ rq[a].err = "Transport"
        /\ rq[a].res.statusCode = 500 /\ rq[a].res.sends = 1
        /\ "Transport" \in rq[b].prior
        /\ rq[b].pc = "done" /\ rq[b].up.complete /\ rq[b].res.statusCode = 200

\* The request path ends with .css, .js, .img or .font.
EndsWithAssetSuffix(url) ==
    url.tail # <<>> /\ url.tail[Len(url.tail)] \in {".css", ".js", ".img", ".font"}

\* C17 as stated: a relayed upstream response carries Cache-Control: public,
\* max-age=86400 exactly when the request path ends with one of the
\* static-asset suffixes.
C17_CacheControlOnAssetSuffix ==
    \A r \in Reqs :
        LET q == rq[r] IN
        q.up.statusCode # 0 => (q.res.cacheControl <=> EndsWithAssetSuffix(q.url))

\* The headers the merge overwrites or adds for request q.
MergedNames(q) ==
    {"host", "x-amz-date", "authorization", "x-amz-content-sha256"}
    \cup (IF q.signedWith.sessionToken # None THEN {"x-amz-security-token"} ELSE {})

\* C18: until signing has succeeded the inbound header map is as it arrived,
\* and it stays so when signing fails; in a forwarded request every header
\* but the merged ones (host, x-amz-date, authorization, x-amz-content-sha256,
\* and x-amz-security-token when the set has a session token) is as it
\* arrived, and so are the method, the url and the body.
C18_OnlyMergedHeadersChange ==
    \A r \in Reqs :
        LET q == rq[r] IN
        /\ q.out.k # "request" => q.headers = q.inbound
        /\ q.err \in {"InvalidURL", "SignCredentials"} =>
                q.headers = q.inbound /\ q.out.k # "request"
        /\ q.out.k = "request" =>
                /\ \A n \in HeaderNames \ MergedNames(q) : q.out.headers[n] = q.inbound[n]
                /\ q.out.method = q.method
                /\ q.out.url = q.url
                /\ q.out.body = q.wire.bytes

\* A forwarded request signed with a set without session token: the Basic
\* authorization it came with is replaced, its accept and x-amz-security-token
\* headers and its body are sent as they came.
C18_Witness ==
    \E r \in Reqs :
        /\ rq[r].out.k = "request"
        /\ rq[r].signedWith.sessionToken = None
        /\ rq[r].inbound["authorization"].k = "basic"
        /\ rq[r].out.headers["authorization"].k = "sigv4"
        /\ rq[r].inbound["accept"] # Absent
        /\ rq[r].out.headers["accept"] = rq[r].inbound["accept"]
        /\ rq[r].inbound["x-amz-security-token"] # Absent
        /\ rq[r].out.headers["x-amz-security-token"] = rq[r].inbound["x-amz-security-token"]
        /\ rq[r].wire.present /\ rq[r].out.body = rq[r].wire.bytes

\* C19 as stated: in a forwarded request the authorization header is the
\* signer's SigV4 value, never the one the caller sent, and the
\* x-amz-security-token header is the signer's token, or absent when the
\* credential set has no session token, never one the caller sent.
C19_CallerCredentialsNotForwarded ==
    \A r \in Reqs :
        LET q == rq[r] IN
        q.out.k = "request" =>
            /\ q.out.headers["authorization"].k = "sigv4"
            /\ q.out.headers["authorization"] =
                    SignedHeaders(q.canon, q.signedWith, signer)["authorization"]
            /\ q.out.headers["x-amz-security-token"] = TokenOf(q.signedWith)

====
